---- MODULE Spec2Model ----
(***************************************************************************)
(* Model of OAHashTable<T> (src/HashTable.cpp): an open-addressing hash    *)
(* table with linear probing / double hashing, automatic growth and two    *)
(* deletion policies (MARK, PACK).                                         *)
(*                                                                         *)
(* Indices are 0-based as in the C++ code; the slot array is a function    *)
(* 0..tableSize-1 -> slot.  Keys are strings, modelled as sequences of     *)
(* character codes; <<>> is the empty string "".  Data values are          *)
(* pointer-like: 0 is nullptr.                                             *)
(***************************************************************************)
EXTENDS Integers, Sequences, FiniteSets, TLC

\* ------------------------------------------------------------------ bounds
MaxCap        == 11  \* largest tableSize explored (a growth beyond it is not taken)
MaxProbes     == 6   \* largest value of the probes counter explored by Spec
MaxProbesDeep == 9   \* largest value of the probes counter explored by SpecDeep
MaxInLen      == 3   \* longest key a caller passes
MaxVal        == 1   \* number of distinct non-null data values

\* ------------------------------------------------------- program constants
\* MAX_KEYLEN is declared in OAHashTable.h: slots hold char Key[MAX_KEYLEN].
\* Its value is scaled down so that keys of MAX_KEYLEN - 1 characters (the
\* longest that are stored whole) and longer ones are among the keys explored.
MAX_KEYLEN == 3
\* 2^16; `unsigned` is 32 bits wide, 2^32 = HALF * HALF
HALF == 65536

\* 2^32 mod m
Pow32Mod(m) == ((HALF % m) * (HALF % m)) % m

\* (a - b) % m evaluated in 32-bit unsigned arithmetic, for 0 <= a, b < 2^31:
\* a - b wraps to 2^32 + a - b when a < b.
USubMod(a, b, m) == IF a >= b THEN (a - b) % m ELSE (Pow32Mod(m) + a - b) % m

\* the key alphabet: one character, so that keys differ by their length
Chars  == {1}
Keys   == UNION {[1..n -> Chars] : n \in 0..MaxInLen}
Values == 0..MaxVal

VARIABLES
    table,               \* OAHTSlot* table
    tableSize,           \* unsigned tableSize
    count,               \* unsigned count, written as its two's-complement
                         \* reading: -1 stands for 4294967295 (0 - 1 wrapped)
    probes,              \* mutable unsigned probes
    expansions,          \* unsigned expansions
    max_load_factor,     \* config: <<numerator, denominator>>
    growth_factor,       \* config: <<numerator, denominator>>
    deletion_policy,     \* config: "MARK" | "PACK"
    secondary_hash_func, \* config: TRUE iff a secondary hash is configured
    freeProc,            \* config: TRUE iff a release callback is configured
    limit,               \* the probes count up to which calls are explored
    live,                \* ghost: values handed to the table and not yet released
    ret                  \* ghost: the last public call and the exception it
                         \* threw ("none" when it returned, "SIGABRT" when the
                         \* process was killed by a detected stack overrun)

vars == <<table, tableSize, count, probes, expansions, max_load_factor,
          growth_factor, deletion_policy, secondary_hash_func, freeProc,
          limit, live, ret>>

config == <<max_load_factor, growth_factor, deletion_policy,
            secondary_hash_func, freeProc, limit>>

\* ------------------------------------------------------------------ helpers
RECURSIVE SumSeq(_)
SumSeq(s) == IF s = <<>> THEN 0 ELSE Head(s) + SumSeq(Tail(s))

\* strncpy(slot.Key, Key, MAX_KEYLEN - 1): at most MAX_KEYLEN-1 characters are
\* stored; Key[MAX_KEYLEN-1] keeps the terminating zero of the zero-filled slot.
\* (TruncOffByOne: the same copy with a limit of MAX_KEYLEN - 2.)
TruncOffByOne(Key) == SubSeq(Key, 1, IF Len(Key) < MAX_KEYLEN - 2 THEN Len(Key) ELSE MAX_KEYLEN - 2)
Trunc(Key) == SubSeq(Key, 1, IF Len(Key) < MAX_KEYLEN - 1 THEN Len(Key) ELSE MAX_KEYLEN - 1)

\* The caller-supplied hash functions (external): any function into the range
\* will do.  These make distinct keys collide ("" with "a", "aa" with "aaa")
\* and give colliding keys different strides.
PrimaryHash(Key, m)   == (2 * (SumSeq(Key) \div 2)) % m
SecondaryHash(Key, m) == (2 * SumSeq(Key) + Len(Key)) % m

Stride(Key, m) == IF secondary_hash_func THEN SecondaryHash(Key, m - 1) + 1 ELSE 1

IsPrime(n) == n >= 2 /\ \A d \in 2..(n - 1) : n % d # 0

\* external helper: the nearest prime >= n
RECURSIVE GetClosestPrime(_)
GetClosestPrime(n) == IF IsPrime(n) THEN n ELSE GetClosestPrime(n + 1)

\* a value-initialised slot (new OAHTSlot[n]()): zero-filled key, null data
InitSlot == [State |-> "UNOCCUPIED", Key |-> <<>>, data |-> 0]

NoErr == "none"

\* The working state of a call: the object's fields plus what the call has
\* thrown (err), the values it passed to freeProc (freed), the growth events
\* it performed (growths), the iterations of packTable's second loop it ran
\* (moves), whether strcpy overran localKey (overrun) and whether it left the
\* explored bounds (oob).
Obj == [table |-> table, tableSize |-> tableSize, count |-> count,
        probes |-> probes, expansions |-> expansions,
        err |-> NoErr, freed |-> <<>>, growths |-> <<>>, moves |-> 0,
        overrun |-> FALSE, oob |-> FALSE]

Occupied(t) == {i \in DOMAIN t : t[i].State = "OCCUPIED"}

\* the multiset of (key, data) pairs held in OCCUPIED slots
Content(t) ==
    LET pairs == {<<t[i].Key, t[i].data>> : i \in Occupied(t)}
    IN  [p \in pairs |-> Cardinality({i \in Occupied(t) : <<t[i].Key, t[i].data>> = p})]

\* ------------------------------------------------------ CheckResizeRequired
CheckResizeRequired(h) ==
    IF max_load_factor[1] = max_load_factor[2]
    THEN h.count = h.tableSize
    ELSE \* Count_ + 1 is unsigned: a negative reading is a value above 2^31
         \/ h.count + 1 < 0
         \/ (h.count + 1) * max_load_factor[2] > max_load_factor[1] * h.tableSize

\* std::ceil(GetStats().TableSize_ * growth_factor)
NewSize(h) == (h.tableSize * growth_factor[1] + growth_factor[2] - 1) \div growth_factor[2]

\* ------------------------------------------------------- linearProbeInsert
Store(h, index, Key, Data) ==
    [h EXCEPT !.table[index] = [State |-> "OCCUPIED", Key |-> Trunc(Key), data |-> Data],
              !.count = @ + 1]

RECURSIVE ProbeInsertLoop(_, _, _, _, _, _, _, _)
ProbeInsertLoop(h, Key, Data, index, originalIndex, stride, probesCount, deletedIndex) ==
    LET pc == probesCount + 1
        st == h.table[index].State
        di == IF st = "DELETED" /\ deletedIndex = -1 THEN index ELSE deletedIndex
        nx == (index + stride) % h.tableSize
    IN  IF st = "UNOCCUPIED"
        THEN [Store(h, IF di # -1 THEN di ELSE index, Key, Data)
                EXCEPT !.probes = @ + pc]
        ELSE IF nx # originalIndex
        THEN ProbeInsertLoop(h, Key, Data, nx, originalIndex, stride, pc, di)
        ELSE IF di # -1
        THEN [Store(h, di, Key, Data) EXCEPT !.probes = @ + pc]
        ELSE [h EXCEPT !.probes = @ + pc, !.err = "E_NO_MEMORY:Failed to insert item."]

\* (linearProbeInsertSkipHome: the same walk started one stride after the
\* home slot.)
linearProbeInsertSkipHome(h, Key, Data) ==
    LET originalIndex == (PrimaryHash(Key, h.tableSize) + Stride(Key, h.tableSize))
                            % h.tableSize
    IN  ProbeInsertLoop(h, Key, Data, originalIndex, originalIndex,
                        Stride(Key, h.tableSize), 0, -1)
linearProbeInsert(h, Key, Data) ==
    LET originalIndex == PrimaryHash(Key, h.tableSize)
    IN  ProbeInsertLoop(h, Key, Data, originalIndex, originalIndex,
                        Stride(Key, h.tableSize), 0, -1)

\* ------------------------------------------------- insert and resizeTable
RECURSIVE insert(_, _, _)
RECURSIVE resizeTable(_, _)
RECURSIVE Rehash(_, _, _, _)

\* the rehash loop of resizeTable: for (i = 0; i < oldSize; i++)
Rehash(h, oldTable, oldSize, i) ==
    IF i >= oldSize \/ h.err # NoErr \/ h.oob THEN h
    ELSE IF oldTable[i].State = "OCCUPIED"
    THEN Rehash(insert(h, oldTable[i].Key, oldTable[i].data), oldTable, oldSize, i + 1)
    ELSE Rehash(h, oldTable, oldSize, i + 1)

resizeTable(h, newSize) ==
    LET size == GetClosestPrime(newSize)
    IN  IF size > MaxCap THEN [h EXCEPT !.oob = TRUE]
        ELSE
        LET h0 == [h EXCEPT !.tableSize = size,
                            !.table = [i \in 0..(size - 1) |-> InitSlot],
                            !.expansions = @ + 1,
                            !.count = 0]
            h1 == Rehash(h0, h.table, h.tableSize, 0)
        IN  IF h1.err # NoErr \/ h1.oob THEN h1
            ELSE [h1 EXCEPT !.growths = Append(@,
                    [before   |-> Content(h.table),
                     after    |-> Content(h1.table),
                     countBefore |-> h.count,
                     countAfter  |-> h1.count,
                     sizeBefore  |-> h.tableSize,
                     sizeAfter   |-> h1.tableSize,
                     deleted  |-> \E i \in DOMAIN h1.table : h1.table[i].State = "DELETED",
                     released |-> Len(h1.freed) - Len(h.freed)])]

\* insert for a non-null key
insert(h, Key, Data) ==
    LET h1 == IF CheckResizeRequired(h) THEN resizeTable(h, NewSize(h)) ELSE h
    IN  IF h1.err # NoErr \/ h1.oob THEN h1 ELSE linearProbeInsert(h1, Key, Data)

\* ---------------------------------------------------------------- packTable
\* first loop: step from the freed slot to the first UNOCCUPIED slot (or back
\* to the start) and return stoppingIndex
RECURSIVE PackScan(_, _, _, _)
PackScan(h, index, stride, currentIndex) ==
    LET c == (currentIndex + stride) % h.tableSize
    IN  IF h.table[c].State = "UNOCCUPIED" THEN USubMod(c, stride, h.tableSize)
        ELSE IF c = index THEN c
        ELSE PackScan(h, index, stride, c)

\* second loop: while (currentIndex != stoppingIndex) { step; copy the slot's
\* key and data; mark it UNOCCUPIED; --count; insert(localKey, localData); }
\* table and tableSize are read afresh in each iteration.  strcpy into
\* char localKey[MAX_KEYLEN - 1] writes Len + 1 bytes: a stored key of
\* MAX_KEYLEN - 1 characters overruns the buffer by one byte.
RECURSIVE PackMove(_, _, _, _)
PackMove(h, stride, currentIndex, stoppingIndex) ==
    IF currentIndex = stoppingIndex \/ h.err # NoErr \/ h.oob THEN h
    ELSE
    LET c         == (currentIndex + stride) % h.tableSize
        localKey  == h.table[c].Key
        localData == h.table[c].data
        h1 == [h EXCEPT !.table[c].State = "UNOCCUPIED",
                        !.count = @ - 1,
                        !.moves = @ + 1,
                        !.overrun = @ \/ Len(localKey) + 1 > MAX_KEYLEN - 1]
    IN  PackMove(insert(h1, localKey, localData), stride, c, stoppingIndex)

\* (packTableTombstone: the same compaction leaving the freed slot DELETED
\* when nothing was moved into it.)
packTableTombstone(h, index) ==
    IF deletion_policy # "PACK" THEN h
    ELSE LET stride == Stride(h.table[index].Key, h.tableSize)
             h1 == PackMove(h, stride, index, PackScan(h, index, stride, index))
         IN  IF h1.table[index].State = "UNOCCUPIED"
             THEN [h1 EXCEPT !.table[index].State = "DELETED"]
             ELSE h1
packTable(h, index) ==
    IF deletion_policy # "PACK" THEN h
    ELSE LET stride == Stride(h.table[index].Key, h.tableSize)
         IN  PackMove(h, stride, index, PackScan(h, index, stride, index))

\* ------------------------------------------------------------------- remove
\* the slot at which the probe walk of remove and find stops:
\* [found, index, probesCount]
\* (ProbeFindAnyState: the same walk comparing the key of every slot that is
\* not UNOCCUPIED, DELETED ones included.)
RECURSIVE ProbeFindAnyState(_, _, _, _, _, _)
ProbeFindAnyState(h, Key, index, originalIndex, stride, probesCount) ==
    LET pc == probesCount + 1
        nx == (index + stride) % h.tableSize
    IN  IF h.table[index].State # "UNOCCUPIED" /\ h.table[index].Key = Key
        THEN [found |-> TRUE, index |-> index, probesCount |-> pc]
        ELSE IF h.table[index].State = "UNOCCUPIED"
        THEN [found |-> FALSE, index |-> index, probesCount |-> pc]
        ELSE IF nx # originalIndex
        THEN ProbeFindAnyState(h, Key, nx, originalIndex, stride, pc)
        ELSE [found |-> FALSE, index |-> nx, probesCount |-> pc]
\* (ProbeFindPastHome: the same walk whose loop test compares with the slot
\* after the home slot, so that the home slot is examined a second time.)
RECURSIVE ProbeFindPastHome(_, _, _, _, _, _)
ProbeFindPastHome(h, Key, index, originalIndex, stride, probesCount) ==
    LET pc == probesCount + 1
        nx == (index + stride) % h.tableSize
    IN  IF h.table[index].State = "OCCUPIED" /\ h.table[index].Key = Key
        THEN [found |-> TRUE, index |-> index, probesCount |-> pc]
        ELSE IF h.table[index].State = "UNOCCUPIED"
        THEN [found |-> FALSE, index |-> index, probesCount |-> pc]
        ELSE IF index # originalIndex \/ probesCount = 0
        THEN ProbeFindPastHome(h, Key, nx, originalIndex, stride, pc)
        ELSE [found |-> FALSE, index |-> nx, probesCount |-> pc]
RECURSIVE ProbeFind(_, _, _, _, _, _)
ProbeFind(h, Key, index, originalIndex, stride, probesCount) ==
    LET pc == probesCount + 1
        nx == (index + stride) % h.tableSize
    IN  IF h.table[index].State = "OCCUPIED" /\ h.table[index].Key = Key
        THEN [found |-> TRUE, index |-> index, probesCount |-> pc]
        ELSE IF h.table[index].State = "UNOCCUPIED"
        THEN [found |-> FALSE, index |-> index, probesCount |-> pc]
        ELSE IF nx # originalIndex
        THEN ProbeFind(h, Key, nx, originalIndex, stride, pc)
        ELSE [found |-> FALSE, index |-> nx, probesCount |-> pc]

Walk(h, Key) ==
    LET originalIndex == PrimaryHash(Key, h.tableSize)
    IN  ProbeFind(h, Key, originalIndex, originalIndex, Stride(Key, h.tableSize), 0)

\* freeProc(table[index].data); table[index].data = nullptr;
Release(h, index) ==
    IF h.table[index].data # 0 /\ freeProc
    THEN [h EXCEPT !.freed = Append(@, h.table[index].data), !.table[index].data = 0]
    ELSE h

\* the end of remove when the walk did not find the key:
\* probes += probesCount; throw
\* (removeNotFoundCounted: the same end with a count-- that is not guarded by
\* keyFound.)
removeNotFoundCounted(h, probesCount) ==
    [h EXCEPT !.count = @ - 1,
              !.probes = @ + probesCount,
              !.err = "E_ITEM_NOT_FOUND:Key not in table."]
removeNotFound(h, probesCount) ==
    [h EXCEPT !.probes = @ + probesCount,
              !.err = "E_ITEM_NOT_FOUND:Key not in table."]

\* remove for a non-null key
remove(h, Key) ==
    LET w == Walk(h, Key)
    IN  IF ~w.found
        THEN removeNotFound(h, w.probesCount)
        ELSE
        LET h1 == Release(h, w.index)
        IN  IF deletion_policy = "PACK"
            THEN LET h2 == packTable([h1 EXCEPT !.table[w.index].State = "UNOCCUPIED"],
                                     w.index)
                 IN  IF h2.err # NoErr \/ h2.oob THEN h2
                     ELSE [h2 EXCEPT !.count = @ - 1, !.probes = @ + w.probesCount]
            ELSE [h1 EXCEPT !.table[w.index].State = "DELETED",
                            !.count = @ - 1,
                            !.probes = @ + w.probesCount]

\* --------------------------------------------------------------------- find
\* (findOrInsert: a lookup that stores a null value under a missing key.)
findOrInsert(h, Key) ==
    LET w == Walk(h, Key)
    IN  IF w.found THEN [h EXCEPT !.probes = @ + w.probesCount]
        ELSE insert([h EXCEPT !.probes = @ + w.probesCount], Key, 0)
\* find for a non-null key: the object after the call (probes is mutable)
find(h, Key) ==
    LET w == Walk(h, Key)
    IN  IF w.found THEN [h EXCEPT !.probes = @ + w.probesCount]
        ELSE [h EXCEPT !.probes = @ + w.probesCount,
                       !.err = "E_ITEM_NOT_FOUND:Item not found in table."]

\* the data find returns a reference to (0 when it throws)
FindValue(h, Key) ==
    LET w == Walk(h, Key) IN IF w.found THEN h.table[w.index].data ELSE 0

\* -------------------------------------------------------------------- clear
\* (ClearLoopOccupiedOnly: the same loop with the State reset placed inside
\* the if (State == OCCUPIED) block.)
RECURSIVE ClearLoopOccupiedOnly(_, _)
ClearLoopOccupiedOnly(h, i) ==
    IF i >= h.tableSize THEN [h EXCEPT !.count = 0]
    ELSE LET occ == h.table[i].State = "OCCUPIED"
             h1  == IF occ /\ h.table[i].data # 0 /\ freeProc
                    THEN [h EXCEPT !.freed = Append(@, h.table[i].data)]
                    ELSE h
             h2  == IF occ THEN [h1 EXCEPT !.table[i].data = 0,
                                           !.table[i].State = "UNOCCUPIED"]
                    ELSE h1
         IN  ClearLoopOccupiedOnly(h2, i + 1)
RECURSIVE ClearLoop(_, _)
ClearLoop(h, i) ==
    IF i >= h.tableSize THEN [h EXCEPT !.count = 0]
    ELSE LET occ == h.table[i].State = "OCCUPIED" /\ h.table[i].data # 0
             h1  == IF occ /\ freeProc THEN [h EXCEPT !.freed = Append(@, h.table[i].data)]
                    ELSE h
             h2  == IF occ THEN [h1 EXCEPT !.table[i].data = 0] ELSE h1
         IN  ClearLoop([h2 EXCEPT !.table[i].State = "UNOCCUPIED"], i + 1)

clear(h) == ClearLoop(h, 0)

\* ----------------------------------------------------------------- GetStats
GetStats(h) ==
    [TableSize_ |-> h.tableSize, Probes_ |-> h.probes, Count_ |-> h.count,
     Expansions_ |-> h.expansions, LoadFactor_ |-> <<h.count, h.tableSize>>]

\* ----------------------------------------------------------------- Init
MaxLoadFactors == {<<1, 10>>, <<1, 2>>, <<1, 1>>}
GrowthFactors  == {<<11, 10>>}
InitialSizes   == {3}

\* the constructor
Constructed ==
    /\ \E n \in InitialSizes :
         /\ tableSize = GetClosestPrime(n)
         /\ table = [i \in 0..(GetClosestPrime(n) - 1) |-> InitSlot]
    /\ count = 0
    /\ probes = 0
    /\ expansions = 0
    /\ max_load_factor \in MaxLoadFactors
    /\ growth_factor \in GrowthFactors
    /\ deletion_policy \in {"MARK", "PACK"}
    /\ secondary_hash_func \in BOOLEAN
    /\ freeProc \in BOOLEAN
    /\ live = {}
    /\ ret = [op |-> "new", err |-> NoErr]

\* commit the fields of a finished call
Commit(h) ==
    /\ table' = h.table
    /\ tableSize' = h.tableSize
    /\ count' = h.count
    /\ probes' = h.probes
    /\ expansions' = h.expansions

fields == <<table, tableSize, count, probes, expansions>>

InBounds(h) == ~h.oob /\ h.probes <= limit

Running == ret.err # "SIGABRT"

Freed(h) == {h.freed[i] : i \in DOMAIN h.freed}

\* insert(Key, Data).  The caller gives every entry an object of its own: a
\* non-null Data is a fresh allocation when the table owns its values
\* (freeProc configured), and is not the Data of a stored entry otherwise.
Insert(Key, Data) ==
    /\ Running
    /\ Data # 0 => Data \notin live \cup {table[i].data : i \in Occupied(table)}
    /\ \E h \in {insert(Obj, Key, Data)} :
           /\ InBounds(h)
           /\ Commit(h)
           /\ live' = IF freeProc /\ h.err = NoErr /\ Data # 0 THEN live \cup {Data} ELSE live
           /\ ret' = [op |-> "insert", err |-> h.err]
    /\ UNCHANGED config

\* insert(nullptr, Data): the null check is the first statement of insert
\* (insertNullLate: the same throw placed after the growth check.)
insertNullLate(h) ==
    [(IF CheckResizeRequired(h) THEN resizeTable(h, NewSize(h)) ELSE h)
        EXCEPT !.err = "E_NO_MEMORY:Key cannot be null."]
insertNull(h) == [h EXCEPT !.err = "E_NO_MEMORY:Key cannot be null."]

InsertNull ==
    /\ Running
    /\ \E h \in {insertNull(Obj)} :
           /\ InBounds(h)
           /\ Commit(h)
           /\ ret' = [op |-> "insert", err |-> h.err]
    /\ UNCHANGED <<config, live>>

\* remove(Key).  A call whose strcpy overran localKey either carries on (the
\* byte lands in padding) or is killed by the stack protector.
Remove(Key) ==
    /\ Running
    /\ \E h \in {remove(Obj, Key)} :
           /\ InBounds(h)
           /\ \/ /\ Commit(h)
                 /\ live' = live \ Freed(h)
                 /\ ret' = [op |-> "remove", err |-> h.err]
              \/ /\ h.overrun
                 /\ ret' = [op |-> "remove", err |-> "SIGABRT"]
                 /\ UNCHANGED <<fields, live>>
    /\ UNCHANGED config

\* remove(nullptr): thrown before any slot is read
removeNull(h) == [h EXCEPT !.err = "E_ITEM_NOT_FOUND:Key not in table."]

RemoveNull ==
    /\ Running
    /\ \E h \in {removeNull(Obj)} :
           /\ InBounds(h)
           /\ Commit(h)
           /\ ret' = [op |-> "remove", err |-> h.err]
    /\ UNCHANGED <<config, live>>

\* find(Key)
Find(Key) ==
    /\ Running
    /\ \E h \in {find(Obj, Key)} :
           /\ InBounds(h)
           /\ Commit(h)
           /\ ret' = [op |-> "find", err |-> h.err]
    /\ UNCHANGED <<config, live>>

\* find(nullptr): thrown before any slot is read
findNull(h) == [h EXCEPT !.err = "E_ITEM_NOT_FOUND:Key cannot be null."]

FindNull ==
    /\ Running
    /\ \E h \in {findNull(Obj)} :
           /\ InBounds(h)
           /\ Commit(h)
           /\ ret' = [op |-> "find", err |-> h.err]
    /\ UNCHANGED <<config, live>>

\* clear()
Clear ==
    /\ Running
    /\ \E h \in {clear(Obj)} :
           /\ Commit(h)
           /\ live' = live \ Freed(h)
           /\ ret' = [op |-> "clear", err |-> NoErr]
    /\ UNCHANGED config

\* GetStats()
Stats ==
    /\ Running
    /\ GetStats(Obj).Count_ = count
    /\ ret' = [op |-> "stats", err |-> NoErr]
    /\ UNCHANGED <<fields, config, live>>

Init == Constructed /\ limit = MaxProbes

Next ==
    \/ \E k \in Keys, v \in Values : Insert(k, v)
    \/ InsertNull
    \/ \E k \in Keys : Remove(k)
    \/ RemoveNull
    \/ \E k \in Keys : Find(k)
    \/ FindNull
    \/ Clear
    \/ Stats

Spec == Init /\ [][Next]_vars

\* The same program, explored to a larger probes count for the tables that
\* grow only when completely full, remove by compaction and own their values.
InitDeep ==
    /\ Constructed
    /\ max_load_factor = <<1, 1>>
    /\ deletion_policy = "PACK"
    /\ freeProc
    /\ limit = MaxProbesDeep

SpecDeep == InitDeep /\ [][Next]_vars

\* ------------------------------------------------------------------ claims
TableFull == "E_NO_MEMORY:Failed to insert item."
Found(h, Key) == Walk(h, Key).found

\* C1  Round-trip: after an insert(k, v) that returns, find(k) returns v.
RoundTrip ==
    [][\A k \in Keys, v \in Values :
         (Insert(k, v) /\ ret'.err = NoErr)
            => (Found(Obj, k))' /\ (FindValue(Obj, k))' = v]_vars

\* the OCCUPIED slots of t that hold Key
Holding(t, Key) == {i \in Occupied(t) : t[i].Key = Key}

\* C1 as amended: for a key k shorter than MAX_KEYLEN that no OCCUPIED slot
\* holds, after an insert(k, v) that returns, find(k) returns v.
RoundTripFresh ==
    [][\A k \in Keys, v \in Values :
         (ret' = [op |-> "insert", err |-> NoErr] /\ Len(k) < MAX_KEYLEN
             /\ Holding(table, k) = {} /\ Insert(k, v))
            => (Found(Obj, k))' /\ (FindValue(Obj, k))' = v]_vars

\* C1 as amended, its case: the last call was an insert that returned, and a
\* key shorter than MAX_KEYLEN sits in exactly one OCCUPIED slot, behind a
\* collision, where find locates it.
RoundTripFreshReached ==
    /\ ret.op = "insert" /\ ret.err = NoErr
    /\ \E k \in Keys :
          /\ Len(k) < MAX_KEYLEN
          /\ Cardinality(Holding(table, k)) = 1
          /\ Found(Obj, k)
          /\ Walk(Obj, k).probesCount >= 2

\* C2  Post-removal: after a remove(k) that returns, find(k) throws.
PostRemoval ==
    [][\A k \in Keys :
         (Remove(k) /\ ret'.err = NoErr) => ~(Found(Obj, k))']_vars

\* C2 where exactly one OCCUPIED slot held k, so that the entry find locates
\* afterwards is not a second copy inserted under the same key.
PostRemovalStoredOnce ==
    [][\A k \in Keys :
         (Remove(k) /\ ret'.err = NoErr /\ Cardinality(Holding(table, k)) = 1)
            => ~(Found(Obj, k))']_vars

\* C3  Pack completeness: after a PACK remove(k) that returns, every other
\* key that find located is still located with the same value, each in an
\* OCCUPIED slot of its own.
PackCompleteness ==
    [][\A k \in Keys :
         (Remove(k) /\ ret'.err = NoErr /\ deletion_policy = "PACK")
            => \A k2 \in Keys \ {k} :
                 Found(Obj, k2)
                    => /\ (Found(Obj, k2))'
                       /\ (FindValue(Obj, k2))' = FindValue(Obj, k2)
                       /\ \A k3 \in Keys \ {k, k2} :
                            Found(Obj, k3) =>
                               (Walk(Obj, k2).index)' # (Walk(Obj, k3).index)']_vars

\* C4  Count invariant: count is the number of OCCUPIED slots.
CountInvariant == Running => count = Cardinality(Occupied(table))

\* C5  Load-factor bound: after an insert that returns,
\* count / tableSize <= max_load_factor.
LoadFactorBound ==
    (ret.op = "insert" /\ ret.err = NoErr)
        => count * max_load_factor[2] <= max_load_factor[1] * tableSize

Failures == {"E_NO_MEMORY:Key cannot be null.", TableFull,
             "E_ITEM_NOT_FOUND:Key not in table.",
             "E_ITEM_NOT_FOUND:Item not found in table.",
             "E_ITEM_NOT_FOUND:Key cannot be null."}

\* C6  Failure atomicity: a call that throws leaves every slot, count,
\* tableSize, expansions and probes as they were.
FailureAtomicity ==
    [][ret'.err \in Failures
          => /\ table' = table
             /\ count' = count
             /\ tableSize' = tableSize
             /\ expansions' = expansions
             /\ probes' = probes]_vars

\* C6 as amended: a call that throws leaves every slot, count, tableSize and
\* expansions as they were; probes may have grown by the slots it examined.
FailureAtomicityButProbes ==
    [][ret'.err \in Failures
          => /\ table' = table
             /\ count' = count
             /\ tableSize' = tableSize
             /\ expansions' = expansions
             /\ probes' >= probes
             /\ probes' <= probes + tableSize]_vars

\* C6 as amended, its case: a remove has thrown NotFoundError on a table that
\* holds entries, for a key whose walk examines more than one slot.
FailureAtomicityReached ==
    /\ ret.op = "remove" /\ ret.err = "E_ITEM_NOT_FOUND:Key not in table."
    /\ count > 0 /\ Occupied(table) # {}
    /\ \E k \in Keys : ~Found(Obj, k) /\ Walk(Obj, k).probesCount >= 2

\* C7  insert never throws the table-full exception.
NoTableFull == ret.err # TableFull

\* C8  Release exactly once: freeProc is only ever called on a value the
\* table holds and has not released, at most once per call, and after clear
\* nothing the table was given is left unreleased.
ReleaseOnce ==
    [][freeProc =>
        /\ \A k \in Keys : Remove(k) /\ Running' =>
              LET f == remove(Obj, k).freed
              IN  \A i \in DOMAIN f : f[i] \in live /\ \A j \in DOMAIN f : f[i] = f[j] => i = j
        /\ Clear =>
              LET f == clear(Obj).freed
              IN  /\ \A i \in DOMAIN f : f[i] \in live /\ \A j \in DOMAIN f : f[i] = f[j] => i = j
                  /\ live' = {}]_vars

\* the growth events of the call a step makes
Growths ==
    UNION ( {{g \in UNION {{insert(Obj, k, v).growths[i] : i \in DOMAIN insert(Obj, k, v).growths}
                              : v \in {w \in Values : Insert(k, w)}} : TRUE} : k \in Keys}
            \cup {{g \in {remove(Obj, k).growths[i] : i \in DOMAIN remove(Obj, k).growths} :
                     Remove(k) /\ Running'} : k \in Keys} )

\* C9  Growth preserves content: a growth event keeps the multiset of stored
\* (key, value) pairs and count, leaves no DELETED slot and releases nothing.
GrowthPreserves ==
    [][\A g \in Growths :
         /\ g.before = g.after
         /\ g.countBefore = g.countAfter
         /\ ~g.deleted
         /\ g.released = 0]_vars

\* C10  Expansion accounting: an insert grows the table exactly once when
\* growth is required at entry and not at all otherwise; no other call
\* changes expansions or tableSize.
ExpansionAccounting ==
    [][/\ \A k \in Keys, v \in Values : Insert(k, v) =>
             IF CheckResizeRequired(Obj)
             THEN expansions' = expansions + 1 /\ tableSize' > tableSize
             ELSE expansions' = expansions /\ tableSize' = tableSize
       /\ ((\E k \in Keys : Remove(k)) \/ (\E k \in Keys : Find(k)) \/ Clear
             \/ Stats \/ RemoveNull \/ FindNull \/ InsertNull)
             => expansions' = expansions /\ tableSize' = tableSize]_vars

\* the exceptions of kind NotFoundError (code E_ITEM_NOT_FOUND)
NotFoundErrors == {"E_ITEM_NOT_FOUND:Key not in table.",
                   "E_ITEM_NOT_FOUND:Item not found in table.",
                   "E_ITEM_NOT_FOUND:Key cannot be null."}

\* C11  Null-key classification: insert(nullptr) throws the null-key
\* exception, not the table-full one, and does not grow the table;
\* remove(nullptr) and find(nullptr) throw NotFoundError; none of the three
\* probes a slot or changes any field.
NullKeyClassification ==
    [][/\ InsertNull => /\ ret'.err = "E_NO_MEMORY:Key cannot be null."
                        /\ ret'.err # TableFull
                        /\ UNCHANGED fields
       /\ RemoveNull => ret'.err \in NotFoundErrors /\ UNCHANGED fields
       /\ FindNull => ret'.err \in NotFoundErrors /\ UNCHANGED fields]_vars

\* C11, its case: insert(nullptr) has thrown on a table that holds entries
\* and for which the growth check answers yes.
NullKeyClassificationReached ==
    /\ ret = [op |-> "insert", err |-> "E_NO_MEMORY:Key cannot be null."]
    /\ count > 0
    /\ CheckResizeRequired(Obj)

\* the j-th slot (j = 0, 1, ...) of Key's probe sequence in a table of m slots
ProbeSlot(Key, m, j) == (PrimaryHash(Key, m) + j * Stride(Key, m)) % m

\* the positions on Key's probe sequence whose slot is in state st
Positions(t, m, Key, st) == {j \in 0..(m - 1) : t[ProbeSlot(Key, m, j)].State = st}

Least(S) == CHOOSE j \in S : \A i \in S : j <= i

\* the slot the claim names: the first DELETED slot of the probe sequence if
\* one comes before the first UNOCCUPIED slot or there is no UNOCCUPIED slot,
\* otherwise the first UNOCCUPIED slot (-1 when there is neither)
Placement(t, m, Key) ==
    LET del == Positions(t, m, Key, "DELETED")
        emp == Positions(t, m, Key, "UNOCCUPIED")
    IN  IF del # {} /\ (emp = {} \/ Least(del) < Least(emp))
        THEN ProbeSlot(Key, m, Least(del))
        ELSE IF emp # {} THEN ProbeSlot(Key, m, Least(emp))
        ELSE -1

\* C12  Insertion placement and tombstone reuse: an insert(k, v) that does
\* not grow the table and returns turns exactly the slot named above into
\* OCCUPIED with key k and value v, adds 1 to count and changes no other slot.
InsertionPlacement ==
    [][\A k \in Keys, v \in Values :
         (ret' = [op |-> "insert", err |-> NoErr] /\ ~CheckResizeRequired(Obj) /\ Insert(k, v))
            => /\ Placement(table, tableSize, k) # -1
               /\ table' = [table EXCEPT ![Placement(table, tableSize, k)] =
                                [State |-> "OCCUPIED", Key |-> k, data |-> v]]
               /\ count' = count + 1]_vars

\* C12 as amended: the same, the slot holding the first MAX_KEYLEN - 1
\* characters of k.
InsertionPlacementStored ==
    [][\A k \in Keys, v \in Values :
         (ret' = [op |-> "insert", err |-> NoErr] /\ ~CheckResizeRequired(Obj) /\ Insert(k, v))
            => /\ Placement(table, tableSize, k) # -1
               /\ table' = [table EXCEPT ![Placement(table, tableSize, k)] =
                                [State |-> "OCCUPIED", Key |-> Trunc(k), data |-> v]]
               /\ count' = count + 1]_vars

\* C12 as amended, its case: the last call was an insert that returned
\* without growing, under the Mark policy, and an OCCUPIED slot sits on its
\* key's probe sequence behind the home slot with a DELETED slot after it and
\* no UNOCCUPIED slot between them: a tombstone taken in preference to a
\* later slot.
InsertionPlacementReached ==
    /\ ret = [op |-> "insert", err |-> NoErr]
    /\ expansions = 0
    /\ \E j \in 1..(tableSize - 2) :
         \E k \in Keys :
           /\ table[ProbeSlot(k, tableSize, j)].State = "OCCUPIED"
           /\ table[ProbeSlot(k, tableSize, j)].Key = k
           /\ table[ProbeSlot(k, tableSize, j + 1)].State = "DELETED"

\* the values of the OCCUPIED slots of t that hold a non-null value, in slot
\* order
OwnedValues(t, m) ==
    LET slots == SelectSeq([j \in 1..m |-> t[j - 1]],
                           LAMBDA sl : sl.State = "OCCUPIED" /\ sl.data # 0)
    IN  [j \in 1..Len(slots) |-> slots[j].data]

\* C13  clear: after clear() every slot is UNOCCUPIED, count is 0, tableSize,
\* expansions and probes are unchanged, freeProc (if configured) has been
\* called once for each slot that was OCCUPIED with a non-null value and for
\* no other slot, and find of any key throws.
ClearEmpties ==
    [][Clear =>
         /\ \A i \in DOMAIN table' : table'[i].State = "UNOCCUPIED"
         /\ count' = 0
         /\ tableSize' = tableSize /\ DOMAIN table' = DOMAIN table
         /\ expansions' = expansions
         /\ probes' = probes
         /\ clear(Obj).freed = IF freeProc THEN OwnedValues(table, tableSize) ELSE <<>>
         /\ \A k \in Keys : ~(Found(Obj, k))']_vars

\* C13, its case: clear() has run on a table that owns its values, had been
\* probed and had slots in use (their key bytes are still there).
ClearEmptiesReached ==
    /\ ret.op = "clear"
    /\ freeProc
    /\ deletion_policy = "MARK"
    /\ probes >= 3
    /\ Cardinality({i \in DOMAIN table : table[i].Key # <<>>}) >= 2

\* C14  Read-only operations: find, whether it returns or throws, leaves
\* every slot, count, tableSize and expansions unchanged and may only add to
\* probes; GetStats changes no field, probes included, and reports
\* count / tableSize as the load factor.
ReadOnly ==
    [][/\ \A k \in Keys :
            (ret'.op = "find" /\ Find(k))
               => /\ table' = table
                  /\ count' = count
                  /\ tableSize' = tableSize
                  /\ expansions' = expansions
                  /\ probes' >= probes
       /\ Stats => /\ UNCHANGED fields
                   /\ GetStats(Obj).LoadFactor_ = <<count, tableSize>>
                   /\ GetStats(Obj)' = GetStats(Obj)]_vars

\* C14, its case: find has returned the value of a key it located behind a
\* collision, in a table that holds several entries.
ReadOnlyReached ==
    /\ ret = [op |-> "find", err |-> NoErr]
    /\ count >= 2
    /\ \E k \in Keys : Found(Obj, k) /\ Walk(Obj, k).probesCount >= 2

\* the positions on Key's probe sequence whose slot is OCCUPIED with Key
Matches(t, m, Key) ==
    {j \in 0..(m - 1) : /\ t[ProbeSlot(Key, m, j)].State = "OCCUPIED"
                         /\ t[ProbeSlot(Key, m, j)].Key = Key}

\* C15  Mark removal frame: under MARK a remove(k) that returns changes one
\* slot only, the first OCCUPIED slot on k's probe sequence that holds k,
\* from OCCUPIED to DELETED (its value is nulled when freeProc released it),
\* takes 1 from count and leaves tableSize and expansions alone; every other
\* key find located is still located with the same value.
MarkRemovalFrame ==
    [][\A k \in Keys :
         (ret' = [op |-> "remove", err |-> NoErr] /\ deletion_policy = "MARK" /\ Remove(k))
            => /\ Matches(table, tableSize, k) # {}
               /\ LET s == ProbeSlot(k, tableSize, Least(Matches(table, tableSize, k)))
                   IN  table' = [table EXCEPT ![s].State = "DELETED",
                                              ![s].data = IF freeProc THEN 0 ELSE @]
               /\ count' = count - 1
               /\ tableSize' = tableSize
               /\ expansions' = expansions
               /\ \A k2 \in Keys \ {k} :
                     Found(Obj, k2)
                        => (Found(Obj, k2))' /\ (FindValue(Obj, k2))' = FindValue(Obj, k2)]_vars

\* C15, its case: a remove has returned under MARK, leaving a DELETED slot
\* on the probe sequence of another key that find still locates behind it.
MarkRemovalFrameReached ==
    /\ ret = [op |-> "remove", err |-> NoErr]
    /\ deletion_policy = "MARK"
    /\ \E k \in Keys :
          /\ Found(Obj, k)
          /\ \E j \in 0..(tableSize - 1) :
                /\ j < Least(Matches(table, tableSize, k))
                /\ table[ProbeSlot(k, tableSize, j)].State = "DELETED"

\* the first slot that is UNOCCUPIED when stepping by stride from slot index
\* of t (slot index itself, UNOCCUPIED, ends a full cycle)
FirstEmptyFrom(t, m, index, stride) ==
    (index + stride * Least({j \in 1..m : t[(index + j * stride) % m].State = "UNOCCUPIED"})) % m

\* C16  Compaction stopping index: when remove(k) under PACK has freed slot
\* index and the scan by the removed key's stride s first meets an UNOCCUPIED
\* slot e, the stoppingIndex packTable computes is the residue (e - s) mod
\* tableSize, the slot before e on the stride.
StoppingIndex ==
    [][\A k \in Keys :
         (ret'.op = "remove" /\ deletion_policy = "PACK" /\ Found(Obj, k) /\ Remove(k))
            => LET index  == Walk(Obj, k).index
                   stride == Stride(table[index].Key, tableSize)
                   h      == [Obj EXCEPT !.table[index].State = "UNOCCUPIED"]
                   e      == FirstEmptyFrom(h.table, tableSize, index, stride)
               IN  PackScan(h, index, stride, index) = (e - stride) % tableSize]_vars

\* what a call can end with
Outcomes == {NoErr} \cup Failures

NoTombstonesUnderPack ==
    deletion_policy = "PACK" => \A i \in DOMAIN table : table[i].State # "DELETED"

\* C18, its case: a remove has returned under PACK, a slot that was in use
\* (it still has its key bytes) is UNOCCUPIED and other entries remain.
NoTombstonesUnderPackReached ==
    /\ ret = [op |-> "remove", err |-> NoErr]
    /\ deletion_policy = "PACK"
    /\ Occupied(table) # {}
    /\ \E i \in DOMAIN table : table[i].State = "UNOCCUPIED" /\ table[i].Key # <<>>

\* the number of OCCUPIED slots of t that hold Key: the multiset of stored keys
Instances(t, Key) == Cardinality(Holding(t, Key))

\* C19  Bag refinement: the multiset of keys in OCCUPIED slots follows the
\* abstract multiset step by step: an insert that returns adds one instance
\* of the stored key, a remove that returns takes one instance of its key,
\* clear empties it, and find, GetStats and every call that throws leave it
\* as it was.
BagRefinement ==
    [][/\ \A k \in Keys, v \in Values :
            (ret' = [op |-> "insert", err |-> NoErr] /\ Insert(k, v))
               => \A x \in Keys :
                     Instances(table', x) = Instances(table, x) + (IF x = Trunc(k) THEN 1 ELSE 0)
       /\ \A k \in Keys :
            (ret' = [op |-> "remove", err |-> NoErr] /\ Remove(k))
               => \A x \in Keys :
                     Instances(table', x) = Instances(table, x) - (IF x = k THEN 1 ELSE 0)
       /\ Clear => \A x \in Keys : Instances(table', x) = 0
       /\ (ret'.op \in {"find", "stats"} \/ ret'.err \in Failures)
               => \A x \in Keys : Instances(table', x) = Instances(table, x)]_vars

\* C20  Probe-chain reachability: every OCCUPIED slot i is met on the probe
\* sequence of the key it holds, walked from the key's home slot with the
\* key's stride, before any UNOCCUPIED slot.
ProbeChainReachable ==
    Running =>
      \A i \in Occupied(table) :
        \E j \in 0..(tableSize - 1) :
           /\ ProbeSlot(table[i].Key, tableSize, j) = i
           /\ \A j2 \in 0..(j - 1) :
                 table[ProbeSlot(table[i].Key, tableSize, j2)].State # "UNOCCUPIED"
====
